---- MODULE Spec2Model ----
(***************************************************************************)
(* A model of hemo's scripts/scaling_net.py: the lattice network built by  *)
(* create_network_multiple_sources_and_sinks, the distance ranking of      *)
(* assign_distances_from_source_and_sink_nodes, the radius repair sweeps,  *)
(* make_switches / central_difference and total_flow.                      *)
(*                                                                         *)
(* A graph is a networkx DiGraph: `ntype` maps each node to its role and   *)
(* `adj` maps each node to the sequence of its successors in insertion     *)
(* order, so that G.edges() is the concatenation of the adjacency lists in *)
(* node order.  Edge attributes are functions keyed by the edge <<u, v>>.  *)
(***************************************************************************)
EXTENDS Integers, Sequences, FiniteSets, Bags, TLC

VARIABLES
    pc,            \* control location of the running function
    err,           \* the exception that left the function, or "none"
    N,             \* create_network...: lattice resolution
    symmetric,     \* create_network...: keyword argument
    radii_iters,   \* create_network...: keyword argument
    ntype,         \* G.node[n]['ntype']
    adj,           \* G.adj: node -> successors, in insertion order
    gsource,       \* G.graph['source']
    gsink,         \* G.graph['sink']
    src_dist,      \* G[u][v]['src_dist']
    sink_dist,     \* G[u][v]['sink_dist']
    center_dist,   \* G[u][v]['center_dist']
    radius,        \* G[u][v]['radius']
    itt,           \* G[u][v]['inverse_transit_time']
    volume,        \* G[u][v]['volume']
    elist,         \* the list G.edges() a loop iterates over
    i,             \* index of the outer loop in elist
    j,             \* index of the inner loop in elist
    sweep,         \* number of completed repair sweeps
    r1,            \* make_switches: the local r1 of the outer iteration
    result,        \* value returned (total_flow, central_difference)
    swapped,       \* history: the last pair of edges whose radii were swapped
    nswaps,        \* history: number of swaps of the repair sweeps
    radius0        \* history: the radii as drawn

vars == <<pc, err, N, symmetric, radii_iters, ntype, adj, gsource, gsink,
          src_dist, sink_dist, center_dist, radius, itt, volume,
          elist, i, j, sweep, r1, result, swapped, nswaps, radius0>>

paramVars == <<N, symmetric, radii_iters>>
graphVars == <<ntype, adj>>
anchorVars == <<gsource, gsink>>
distVars == <<src_dist, sink_dist, center_dist>>
flowVars == <<itt, volume>>
histVars == <<swapped, nswaps, radius0>>

----------------------------------------------------------------------------
(* Bounds of the model.                                                    *)

MaxN == 3          \* largest lattice resolution explored
MaxNeg == 2        \* resolutions down to -MaxNeg are explored
MaxNode == 2       \* drawn graphs have the nodes 0..MaxNode
MaxEdges == 3      \* drawn graphs have at most this many edges
MaxRadius == 2     \* radii are drawn from 1..MaxRadius
MaxIters == 2      \* radii_iters is drawn from 0..MaxIters
MaxVal == 2        \* inverse_transit_time and volume are drawn from 1..MaxVal
MaxFlowEdges == 2  \* graphs given to total_flow have at most this many edges

(* Program constants.                                                      *)
NoPath == -1       \* stands for the exception nx.NetworkXNoPath
DefaultIters == 2  \* radii_iters=2

Unset == "unset"
Roles == {"internal", "source", "sink"}

----------------------------------------------------------------------------
(* networkx primitives.                                                    *)

Range(n) == 0 .. (n - 1)

SeqSet(s) == {s[k] : k \in DOMAIN s}

\* G.edges(): for every node in node order, its successors in adjacency order.
RECURSIVE EdgesFrom(_, _)
EdgesFrom(a, n) ==
    IF n \notin DOMAIN a THEN <<>>
    ELSE [k \in DOMAIN a[n] |-> <<n, a[n][k]>>] \o EdgesFrom(a, n + 1)

EdgesOf(a) == EdgesFrom(a, 0)

\* the edges as a set
EdgeSet(a) == UNION {{<<u, a[u][k]>> : k \in DOMAIN a[u]} : u \in DOMAIN a}

\* G.remove_edge(u, v)
RemoveEdge(a, u, v) == [a EXCEPT ![u] = SelectSeq(@, LAMBDA w : w # v)]

\* G.add_edge(u, v) between existing nodes: a new successor goes last.
AddEdge(a, u, v) ==
    IF v \in SeqSet(a[u]) THEN a ELSE [a EXCEPT ![u] = Append(@, v)]

Succs(a, S) == UNION {SeqSet(a[u]) : u \in S}

\* nx.shortest_path_length(G, source=s, target=t): breadth-first search; the
\* number of edges of a shortest directed path, NoPath when there is none.
RECURSIVE BfsDepth(_, _, _, _, _)
BfsDepth(a, frontier, seen, t, d) ==
    IF t \in frontier THEN d
    ELSE LET nxt == Succs(a, frontier) \ seen
         IN  IF nxt = {} THEN NoPath
             ELSE BfsDepth(a, nxt, seen \cup nxt, t, d + 1)

shortest_path_length(a, s, t) == BfsDepth(a, {s}, {s}, t, 0)

\* min() of a non-empty collection of integers
Min(S) == CHOOSE m \in S : \A x \in S : m <= x

Abs(x) == IF x < 0 THEN 0 - x ELSE x

----------------------------------------------------------------------------
(* create_network_multiple_sources_and_sinks: the lattice.                 *)

\* vd[(x, y, z)]: the counter value when the node was added
Vd(n, x, y, z) == x * n * n + y * n + z

XOf(n, c) == c \div (n * n)
YOf(n, c) == (c \div n) % n
ZOf(n, c) == c % n

\* the nodes after the first triple loop
LatticeNodes(n) == [c \in Range(n * n * n) |-> "internal"]

\* el of one node: the forward neighbours along x, y, z
ForwardNeighbours(n, c) ==
    LET x == XOf(n, c)
        y == YOf(n, c)
        z == ZOf(n, c)
    IN  (IF x < n - 1 THEN <<Vd(n, x + 1, y, z)>> ELSE <<>>) \o
        (IF y < n - 1 THEN <<Vd(n, x, y + 1, z)>> ELSE <<>>) \o
        (IF z < n - 1 THEN <<Vd(n, x, y, z + 1)>> ELSE <<>>)

LatticeAdj(n) == [c \in Range(n * n * n) |-> ForwardNeighbours(n, c)]

\* (x, y) is skipped by the role loop unless the parities agree
OnCheckerboard(x, y) == (y % 2) = (x % 2)

\* the role loop: 'source' on the face z = 0, then 'sink' on the face z = n-1
\* (for n = 1 the two faces coincide and the later assignment stands)
LatticeRoles(n, nt) ==
    [c \in DOMAIN nt |->
        IF OnCheckerboard(XOf(n, c), YOf(n, c)) /\ ZOf(n, c) = n - 1 THEN "sink"
        ELSE IF OnCheckerboard(XOf(n, c), YOf(n, c)) /\ ZOf(n, c) = 0 THEN "source"
        ELSE nt[c]]

NeedsFlipNoSink(nt, u, v) == nt[v] = "source"
\* the test of the re-orientation loop
NeedsFlip(nt, u, v) == nt[v] = "source" \/ nt[u] = "sink"

Reorient(a, u, v) == AddEdge(RemoveEdge(a, u, v), v, u)

----------------------------------------------------------------------------
(* assign_distances_from_source_and_sink_nodes                             *)

source_nodes(nt) == {n \in DOMAIN nt : nt[n] = "source"}
sink_nodes(nt) == {n \in DOMAIN nt : nt[n] = "sink"}

\* the distances collected in src_dists: a query that raises is passed over
src_dists(a, nt, u) ==
    {shortest_path_length(a, s, u) : s \in source_nodes(nt)} \ {NoPath}

sink_dists(a, nt, v) ==
    {shortest_path_length(a, v, k) : k \in sink_nodes(nt)} \ {NoPath}

MinOrZeroMax(S) == IF S = {} THEN 0 ELSE CHOOSE m \in S : \A x \in S : m >= x
\* 0 when the list is empty, else its minimum
MinOrZero(S) == IF S = {} THEN 0 ELSE Min(S)

SrcDistOf(a, nt, e) == MinOrZero(src_dists(a, nt, e[1]))
SinkDistOf(a, nt, e) == MinOrZero(sink_dists(a, nt, e[2]))
CenterDistOf(a, nt, e) == Abs(SrcDistOf(a, nt, e) - SinkDistOf(a, nt, e))

NoAttr == [e \in {} |-> 0]

----------------------------------------------------------------------------
(* SpecBuild: create_network_multiple_sources_and_sinks(N, symmetric=...)  *)
(* up to its return.  G.edges() is a list (networkx 1.x, the release that  *)
(* has G.node), so the re-orientation loop iterates over a snapshot.  The  *)
(* radius of an edge records only which policy assigned it; the values of  *)
(* the random radii and the steps of their repair are those of SpecRadii.  *)

Resolutions == (0 - MaxNeg) .. MaxN

IdleLoop == /\ elist = <<>> /\ i = 0 /\ j = 0 /\ sweep = 0 /\ r1 = 0
IdleHist == /\ swapped = <<>> /\ nswaps = 0 /\ radius0 = NoAttr
IdleAttrs == /\ src_dist = NoAttr /\ sink_dist = NoAttr /\ center_dist = NoAttr
             /\ radius = NoAttr /\ itt = NoAttr /\ volume = NoAttr

InitBuild ==
    /\ pc = "start"
    /\ err = "none"
    /\ N \in Resolutions
    /\ symmetric \in BOOLEAN
    /\ radii_iters = DefaultIters
    /\ ntype = <<>>
    /\ adj = <<>>
    /\ gsource = Unset
    /\ gsink = Unset
    /\ result = Unset
    /\ IdleAttrs
    /\ IdleLoop
    /\ IdleHist

\* delta = 1 / (N + 1)
Delta ==
    /\ pc = "start"
    /\ IF N + 1 = 0
       THEN pc' = "raised" /\ err' = "ZeroDivisionError"
       ELSE pc' = "nodes" /\ err' = err
    /\ UNCHANGED <<paramVars, graphVars, anchorVars, distVars, radius, flowVars,
                   elist, i, j, sweep, r1, result, histVars>>

AddNodes ==
    /\ pc = "nodes"
    /\ ntype' = LatticeNodes(N)
    /\ adj' = [c \in Range(N * N * N) |-> <<>>]
    /\ pc' = "edges"
    /\ UNCHANGED <<err, paramVars, anchorVars, distVars, radius, flowVars,
                   elist, i, j, sweep, r1, result, histVars>>

AddEdges ==
    /\ pc = "edges"
    /\ adj' = LatticeAdj(N)
    /\ pc' = "roles"
    /\ UNCHANGED <<err, paramVars, ntype, anchorVars, distVars, radius, flowVars,
                   elist, i, j, sweep, r1, result, histVars>>

AssignRoles ==
    /\ pc = "roles"
    /\ ntype' = LatticeRoles(N, ntype)
    /\ pc' = "orient"
    /\ elist' = EdgesOf(adj)
    /\ i' = 1
    /\ UNCHANGED <<err, paramVars, adj, anchorVars, distVars, radius, flowVars,
                   j, sweep, r1, result, histVars>>

ReorientStep ==
    /\ pc = "orient"
    /\ i <= Len(elist)
    /\ LET u == elist[i][1]
           v == elist[i][2]
       IN  adj' = IF NeedsFlip(ntype, u, v) THEN Reorient(adj, u, v) ELSE adj
    /\ i' = i + 1
    /\ UNCHANGED <<pc, err, paramVars, ntype, anchorVars, distVars, radius,
                   flowVars, elist, j, sweep, r1, result, histVars>>

\* net_prep.calculate_lengths(G), then the branch on `symmetric`
Lengths ==
    /\ pc = "orient"
    /\ i > Len(elist)
    /\ pc' = IF symmetric THEN "uniform" ELSE "rank"
    /\ elist' = <<>>
    /\ i' = 0
    /\ UNCHANGED <<err, paramVars, graphVars, anchorVars, distVars, radius,
                   flowVars, j, sweep, r1, result, histVars>>

Rank ==
    /\ pc = "rank"
    /\ src_dist' = [e \in EdgeSet(adj) |-> SrcDistOf(adj, ntype, e)]
    /\ sink_dist' = [e \in EdgeSet(adj) |-> SinkDistOf(adj, ntype, e)]
    /\ center_dist' = [e \in EdgeSet(adj) |-> CenterDistOf(adj, ntype, e)]
    /\ pc' = "gamma"
    /\ UNCHANGED <<err, paramVars, graphVars, anchorVars, radius, flowVars,
                   elist, i, j, sweep, r1, result, histVars>>

\* the gamma draw of every edge; the value drawn is left abstract here
GammaRadii ==
    /\ pc = "gamma"
    /\ radius' = [e \in EdgeSet(adj) |-> "gamma"]
    /\ pc' = "repair"
    /\ UNCHANGED <<err, paramVars, graphVars, anchorVars, distVars, flowVars,
                   elist, i, j, sweep, r1, result, histVars>>

\* the radii_iters sweeps exchange radii between edges and touch nothing
\* else, so with the values abstract they leave the state as it is
RepairSweeps ==
    /\ pc = "repair"
    /\ pc' = "prep"
    /\ UNCHANGED <<err, paramVars, graphVars, anchorVars, distVars, radius,
                   flowVars, elist, i, j, sweep, r1, result, histVars>>

UniformRadii ==
    /\ pc = "uniform"
    /\ radius' = [e \in EdgeSet(adj) |-> "uniform"]
    /\ pc' = "prep"
    /\ UNCHANGED <<err, paramVars, graphVars, anchorVars, distVars, flowVars,
                   elist, i, j, sweep, r1, result, histVars>>

\* net_prep.prep_net_for_sims(G); return G
Return ==
    /\ pc = "prep"
    /\ pc' = "returned"
    /\ UNCHANGED <<err, paramVars, graphVars, anchorVars, distVars, radius,
                   flowVars, elist, i, j, sweep, r1, result, histVars>>

NextBuild ==
    \/ Delta
    \/ AddNodes
    \/ AddEdges
    \/ AssignRoles
    \/ ReorientStep
    \/ Lengths
    \/ Rank
    \/ GammaRadii
    \/ RepairSweeps
    \/ UniformRadii
    \/ Return

SpecBuild == InitBuild /\ [][NextBuild]_vars

\* control locations after the re-orientation loop
AfterOrient == {"uniform", "rank", "gamma", "repair", "prep", "returned"}

\* direction invariant 1 of the graph
Oriented(a, nt) ==
    \A e \in EdgeSet(a) : nt[e[1]] # "sink" /\ nt[e[2]] # "source"

\* C1: for every resolution N >= 1, once the re-orientation loop is over (and
\* so in the returned graph) no edge originates at a sink-role node and no
\* edge terminates at a source-role node.
C1_EdgesOriented ==
    (N >= 1 /\ pc \in AfterOrient) => Oriented(adj, ntype)

\* a lattice with edges is returned and some edge of it was reversed
C1_Witness ==
    /\ pc = "returned"
    /\ N >= 2
    /\ \E e \in EdgeSet(adj) : e[1] > e[2] /\ ntype[e[2]] = "sink"
    /\ \E e \in EdgeSet(adj) : e[1] > e[2] /\ ntype[e[1]] = "source"

\* C6: a resolution N <= 0 is rejected with InvalidParameter before any node
\* or edge is constructed and no graph is returned; a resolution N >= 1
\* raises no error.
C6_NonPositiveRejected ==
    /\ N <= 0 => /\ pc \in {"start", "raised"}
                 /\ pc = "raised" => err = "InvalidParameter"
                 /\ ntype = <<>> /\ adj = <<>>
    /\ N >= 1 => err = "none"

----------------------------------------------------------------------------
(* Drawn graphs: every digraph without self-loops on the nodes 0..MaxNode  *)
(* with at most MaxEdges edges, the successors of a node in increasing     *)
(* order.                                                                  *)

DrawnNodes == 0 .. MaxNode

RECURSIVE SortedSeq(_)
SortedSeq(S) ==
    IF S = {} THEN <<>> ELSE <<Min(S)>> \o SortedSeq(S \ {Min(S)})

AdjOf(E) == [u \in DrawnNodes |-> SortedSeq({v \in DrawnNodes : <<u, v>> \in E})]

DrawnEdgeSets(maxEdges) ==
    {E \in SUBSET {p \in DrawnNodes \X DrawnNodes : p[1] # p[2]} :
        Cardinality(E) <= maxEdges}

DrawnAdjs == {AdjOf(E) : E \in DrawnEdgeSets(MaxEdges)}

----------------------------------------------------------------------------
(* SpecDist: assign_distances_from_source_and_sink_nodes(G) on a drawn     *)
(* graph with arbitrary roles, one edge of the loop per step.              *)

InitDist ==
    /\ pc = "dist_call"
    /\ err = "none"
    /\ N = 0
    /\ symmetric = FALSE
    /\ radii_iters = DefaultIters
    /\ adj \in DrawnAdjs
    /\ ntype \in [DrawnNodes -> Roles]
    /\ gsource = Unset
    /\ gsink = Unset
    /\ result = Unset
    /\ IdleAttrs
    /\ IdleLoop
    /\ IdleHist

\* the node loop collecting source_nodes and sink_nodes; the edge loop starts
DistBegin ==
    /\ pc = "dist_call"
    /\ pc' = "dist_loop"
    /\ elist' = EdgesOf(adj)
    /\ i' = 1
    /\ UNCHANGED <<err, paramVars, graphVars, anchorVars, distVars, radius,
                   flowVars, j, sweep, r1, result, histVars>>

\* one iteration of the edge loop
DistStep ==
    /\ pc = "dist_loop"
    /\ i <= Len(elist)
    /\ LET e == elist[i]
       IN  /\ src_dist' = (e :> SrcDistOf(adj, ntype, e)) @@ src_dist
           /\ sink_dist' = (e :> SinkDistOf(adj, ntype, e)) @@ sink_dist
           /\ center_dist' = (e :> CenterDistOf(adj, ntype, e)) @@ center_dist
    /\ i' = i + 1
    /\ UNCHANGED <<pc, err, paramVars, graphVars, anchorVars, radius, flowVars,
                   elist, j, sweep, r1, result, histVars>>

DistReturn ==
    /\ pc = "dist_loop"
    /\ i > Len(elist)
    /\ pc' = "dist_done"
    /\ UNCHANGED <<err, paramVars, graphVars, anchorVars, distVars, radius,
                   flowVars, elist, i, j, sweep, r1, result, histVars>>

NextDist ==
    \/ DistBegin
    \/ DistStep
    \/ DistReturn

SpecDist == InitDist /\ [][NextDist]_vars

\* there is a directed walk of exactly len edges from s to t
WalkOfLength(a, s, t, len) ==
    \E w \in [1 .. (len + 1) -> DOMAIN a] :
        /\ w[1] = s
        /\ w[len + 1] = t
        /\ \A k \in 1 .. len : <<w[k], w[k + 1]>> \in EdgeSet(a)

WalkLengths(a) == 0 .. (Cardinality(DOMAIN a) - 1)

\* d is the least length of a directed walk from a node of S to t
LeastFrom(a, S, t, d) ==
    /\ \E s \in S : WalkOfLength(a, s, t, d)
    /\ \A s \in S : \A len \in WalkLengths(a) : len < d => ~WalkOfLength(a, s, t, len)

\* d is the least length of a directed walk from s to a node of T
LeastTo(a, s, T, d) ==
    /\ \E t \in T : WalkOfLength(a, s, t, d)
    /\ \A t \in T : \A len \in WalkLengths(a) : len < d => ~WalkOfLength(a, s, t, len)

CanReach(a, S, T) ==
    \E s \in S : \E t \in T : \E len \in WalkLengths(a) : WalkOfLength(a, s, t, len)

\* C2: assign_distances_from_source_and_sink_nodes raises nothing, and for
\* every edge (u,v) src_dist is the least length of a directed path from a
\* source-role node to u, or 0 when no source-role node reaches u, and
\* sink_dist is the least length of a directed path from v to a sink-role
\* node, or 0 when v reaches none.
C2_DistancesOrZero ==
    /\ err = "none"
    /\ pc = "dist_done" =>
        /\ DOMAIN src_dist = EdgeSet(adj)
        /\ DOMAIN sink_dist = EdgeSet(adj)
        /\ \A e \in EdgeSet(adj) :
            /\ IF CanReach(adj, source_nodes(ntype), {e[1]})
               THEN LeastFrom(adj, source_nodes(ntype), e[1], src_dist[e])
               ELSE src_dist[e] = 0
            /\ IF CanReach(adj, {e[2]}, sink_nodes(ntype))
               THEN LeastTo(adj, e[2], sink_nodes(ntype), sink_dist[e])
               ELSE sink_dist[e] = 0

\* the function returned on a graph with sources and sinks where the tail of
\* some edge is reached by no source (the fallback) and where some edge is at
\* a positive distance of a source and some edge of a sink
C2_Witness ==
    /\ pc = "dist_done"
    /\ source_nodes(ntype) # {}
    /\ sink_nodes(ntype) # {}
    /\ \E e \in EdgeSet(adj) : ~CanReach(adj, source_nodes(ntype), {e[1]})
    /\ \E e \in EdgeSet(adj) : src_dist[e] >= 1
    /\ \E e \in EdgeSet(adj) : sink_dist[e] >= 1

----------------------------------------------------------------------------
(* central_difference(G, edge)                                             *)

\* the inner function: the query from the edge's source endpoint to the
\* node and, when it raises NetworkXNoPath, the query from the node to the
\* edge's sink endpoint, which is outside any try and may raise in turn
dist_edge_node(a, edge, node) ==
    LET d1 == shortest_path_length(a, edge[1], node)
    IN  IF d1 # NoPath THEN d1 ELSE shortest_path_length(a, node, edge[2])

\* NoPath stands for the exception leaving central_difference
central_difference(a, s, t, edge) ==
    LET d1 == dist_edge_node(a, edge, s)
        d2 == dist_edge_node(a, edge, t)
    IN  IF d1 = NoPath \/ d2 = NoPath THEN NoPath ELSE Abs(d1 - d2)

----------------------------------------------------------------------------
(* SpecCentral: central_difference called on an edge of a drawn graph      *)
(* whose designated source and sink are nodes of the graph.                *)

InitCentral ==
    /\ pc = "cd_call"
    /\ err = "none"
    /\ N = 0
    /\ symmetric = FALSE
    /\ radii_iters = DefaultIters
    /\ adj \in DrawnAdjs
    /\ ntype = [n \in DrawnNodes |-> "internal"]
    /\ gsource \in DrawnNodes
    /\ gsink \in DrawnNodes
    /\ result = Unset
    /\ IdleAttrs
    /\ IdleLoop
    /\ IdleHist

CentralReturns ==
    /\ pc = "cd_call"
    /\ \E e \in EdgeSet(adj) :
        /\ central_difference(adj, gsource, gsink, e) # NoPath
        /\ elist' = <<e>>
        /\ result' = central_difference(adj, gsource, gsink, e)
    /\ pc' = "cd_returned"
    /\ UNCHANGED <<err, paramVars, graphVars, anchorVars, distVars, radius,
                   flowVars, i, j, sweep, r1, histVars>>

CentralRaises ==
    /\ pc = "cd_call"
    /\ \E e \in EdgeSet(adj) :
        /\ central_difference(adj, gsource, gsink, e) = NoPath
        /\ elist' = <<e>>
    /\ pc' = "raised"
    /\ err' = "NetworkXNoPath"
    /\ UNCHANGED <<paramVars, graphVars, anchorVars, distVars, radius,
                   flowVars, i, j, sweep, r1, result, histVars>>

NextCentral ==
    \/ CentralReturns
    \/ CentralRaises

SpecCentral == InitCentral /\ [][NextCentral]_vars

\* C5: central_difference never propagates a missing path: on every graph
\* whose designated source and sink are set and for every edge it returns a
\* non-negative difference.
C5_NoPathNeverPropagates ==
    /\ err = "none"
    /\ pc = "cd_returned" => result >= 0

----------------------------------------------------------------------------
(* total_flow(G)                                                           *)

EntersSource(e, s) == e[2] = s
\* the test of the loop body
LeavesSource(e, s) == e[1] = s

\* one iteration of the loop: q after the edge e
FlowAdd(q, e, s, t, vol) == IF LeavesSource(e, s) THEN q + t[e] * vol[e] ELSE q

----------------------------------------------------------------------------
(* SpecFlow: total_flow on a drawn graph with a designated source and      *)
(* drawn edge attributes, one edge of the loop per step.                   *)

Vals == 1 .. MaxVal

InitFlow ==
    /\ pc = "flow_call"
    /\ err = "none"
    /\ N = 0
    /\ symmetric = FALSE
    /\ radii_iters = DefaultIters
    /\ adj \in {AdjOf(E) : E \in DrawnEdgeSets(MaxFlowEdges)}
    /\ ntype = [n \in DrawnNodes |-> "internal"]
    /\ gsource \in DrawnNodes
    /\ gsink = Unset
    /\ itt \in [EdgeSet(adj) -> Vals]
    /\ volume \in [EdgeSet(adj) -> Vals]
    /\ src_dist = NoAttr /\ sink_dist = NoAttr /\ center_dist = NoAttr
    /\ radius = NoAttr
    /\ result = Unset
    /\ IdleLoop
    /\ IdleHist

\* q = 0
FlowBegin ==
    /\ pc = "flow_call"
    /\ pc' = "flow_loop"
    /\ result' = 0
    /\ elist' = EdgesOf(adj)
    /\ i' = 1
    /\ UNCHANGED <<err, paramVars, graphVars, anchorVars, distVars, radius,
                   flowVars, j, sweep, r1, histVars>>

FlowStep ==
    /\ pc = "flow_loop"
    /\ i <= Len(elist)
    /\ result' = FlowAdd(result, elist[i], gsource, itt, volume)
    /\ i' = i + 1
    /\ UNCHANGED <<pc, err, paramVars, graphVars, anchorVars, distVars, radius,
                   flowVars, elist, j, sweep, r1, histVars>>

FlowReturn ==
    /\ pc = "flow_loop"
    /\ i > Len(elist)
    /\ pc' = "flow_returned"
    /\ UNCHANGED <<err, paramVars, graphVars, anchorVars, distVars, radius,
                   flowVars, elist, i, j, sweep, r1, result, histVars>>

NextFlow ==
    \/ FlowBegin
    \/ FlowStep
    \/ FlowReturn

SpecFlow == InitFlow /\ [][NextFlow]_vars

RECURSIVE SumOver(_, _, _)
SumOver(S, t, vol) ==
    IF S = {} THEN 0
    ELSE LET e == CHOOSE x \in S : TRUE
         IN  t[e] * vol[e] + SumOver(S \ {e}, t, vol)

\* C7: total_flow returns the sum of inverse_transit_time x volume over
\* exactly the edges whose source endpoint is the designated source (0 when
\* no edge leaves it), and no step of it changes the graph or an attribute.
C7_TotalFlow ==
    /\ [](pc = "flow_returned" =>
            result = SumOver({e \in EdgeSet(adj) : e[1] = gsource}, itt, volume))
    /\ [][UNCHANGED <<graphVars, anchorVars, flowVars, distVars, radius>>]_vars

\* total_flow returned a positive flow on a graph where some edge leaves the
\* designated source and some edge enters it
C7_Witness ==
    /\ pc = "flow_returned"
    /\ result > 0
    /\ \E e \in EdgeSet(adj) : e[1] = gsource
    /\ \E e \in EdgeSet(adj) : e[2] = gsource /\ e[1] # gsource

----------------------------------------------------------------------------
(* The repair sweeps of create_network_multiple_sources_and_sinks.         *)

RepairSkipsNone(e1, e2) == FALSE
\* the pair is passed over: `if src1 == src2: continue`
RepairSkips(e1, e2) == e1[1] = e2[1]

RepairSwapsLarger(cd, r, e1, e2) == cd[e1] > cd[e2] /\ r[e1] > r[e2]
\* the test that guards the swap
RepairSwaps(cd, r, e1, e2) == cd[e1] > cd[e2] /\ r[e1] < r[e2]

\* the three assignments through temp_radius
RepairAssign(r, e1, e2) == [r EXCEPT ![e1] = r[e2], ![e2] = r[e1]]

SweepsToRunOneMore(iters) == iters + 1
\* range(radii_iters): the number of sweeps
SweepsToRun(iters) == iters

----------------------------------------------------------------------------
(* make_switches(G)                                                        *)

SwitchSkipsSameSource(e1, e2) == e1[1] = e2[1]
\* the pair is passed over: `if src1 == src2 or sink1 == sink2: continue`
SwitchSkips(e1, e2) == e1[1] = e2[1] \/ e1[2] = e2[2]

\* the test that guards the swap, on cd1, r1 and the partner's cd2, r2
SwitchSwaps(cd1, rr1, cd2, rr2) == cd1 < cd2 /\ rr1 > rr2

SwitchAssignNoTemp(r, e1, e2, rr1, rr2) == [r EXCEPT ![e1] = rr2, ![e2] = rr2]
\* the two assignments: edge 1 takes r2, edge 2 takes r1
SwitchAssign(r, e1, e2, rr1, rr2) == [r EXCEPT ![e1] = rr2, ![e2] = rr1]

----------------------------------------------------------------------------
(* SpecRadii: the random branch of create_network... on a role-tagged,     *)
(* oriented graph (ranking, gamma draws, repair sweeps one edge pair per   *)
(* step), the hand-over to the simulation preparation that designates the  *)
(* aggregate source and sink, and a call of make_switches on the result.   *)

\* a source feeding a chain that ends in a two-cycle, and a sink
GraphA == [ntype |-> <<"internal", "internal", "source", "sink", "internal">>,
           adj |-> << <<1>>, <<4>>, <<0, 3>>, <<>>, <<1>> >>]

\* a diamond from a source to a sink with a cross edge
GraphB == [ntype |-> <<"source", "internal", "internal", "sink">>,
           adj |-> << <<1, 2>>, <<2, 3>>, <<3>>, <<>> >>]

\* two separate vessels, each from its own source to its own sink
GraphC == [ntype |-> <<"source", "internal", "sink", "source", "sink">>,
           adj |-> << <<1>>, <<2>>, <<>>, <<4>>, <<>> >>]

\* node k of a catalogue graph is the node k - 1 of the model
ZeroBased(s) == [n \in Range(Len(s)) |-> s[n + 1]]

Catalogue ==
    {[ntype |-> ZeroBased(g.ntype),
      adj |-> ZeroBased([k \in DOMAIN g.adj |->
                  [m \in DOMAIN g.adj[k] |-> g.adj[k][m]]])] :
        g \in {GraphA, GraphB, GraphC}}

InitRadii ==
    /\ pc = "rank"
    /\ err = "none"
    /\ N = 0
    /\ symmetric = FALSE
    /\ radii_iters \in 0 .. MaxIters
    /\ \E g \in Catalogue : ntype = g.ntype /\ adj = g.adj
    /\ gsource = Unset
    /\ gsink = Unset
    /\ result = Unset
    /\ IdleAttrs
    /\ IdleLoop
    /\ IdleHist

\* G[src][sink]['radius'] = np.random.gamma(alpha, beta) for every edge
DrawRadii ==
    /\ pc = "gamma"
    /\ radius' \in [EdgeSet(adj) -> 1 .. MaxRadius]
    /\ radius0' = radius'
    /\ pc' = "repair"
    /\ elist' = EdgesOf(adj)
    /\ i' = 1
    /\ j' = 1
    /\ sweep' = 0
    /\ UNCHANGED <<err, paramVars, graphVars, anchorVars, distVars, flowVars,
                   r1, result, swapped, nswaps>>

\* the loop indices after the pair (i, j)
Advance ==
    IF j < Len(elist) THEN /\ j' = j + 1 /\ UNCHANGED <<i, sweep>>
    ELSE IF i < Len(elist) THEN /\ j' = 1 /\ i' = i + 1 /\ UNCHANGED sweep
    ELSE /\ j' = 1 /\ i' = 1 /\ sweep' = sweep + 1

InSweep ==
    /\ pc = "repair"
    /\ sweep < SweepsToRun(radii_iters)
    /\ i \in DOMAIN elist
    /\ j \in DOMAIN elist

RepairSkip ==
    /\ InSweep
    /\ RepairSkips(elist[i], elist[j])
    /\ Advance
    /\ UNCHANGED <<pc, err, paramVars, graphVars, anchorVars, distVars, radius,
                   flowVars, elist, r1, result, histVars>>

RepairKeep ==
    /\ InSweep
    /\ ~RepairSkips(elist[i], elist[j])
    /\ ~RepairSwaps(center_dist, radius, elist[i], elist[j])
    /\ Advance
    /\ UNCHANGED <<pc, err, paramVars, graphVars, anchorVars, distVars, radius,
                   flowVars, elist, r1, result, histVars>>

RepairSwap ==
    /\ InSweep
    /\ ~RepairSkips(elist[i], elist[j])
    /\ RepairSwaps(center_dist, radius, elist[i], elist[j])
    /\ radius' = RepairAssign(radius, elist[i], elist[j])
    /\ swapped' = <<"repair", elist[i], elist[j]>>
    /\ nswaps' = nswaps + 1
    /\ Advance
    /\ UNCHANGED <<pc, err, paramVars, graphVars, anchorVars, distVars,
                   flowVars, elist, r1, result, radius0>>

RepairDone ==
    /\ pc = "repair"
    /\ ~(sweep < SweepsToRun(radii_iters) /\ elist # <<>>)
    /\ pc' = "prep"
    /\ UNCHANGED <<err, paramVars, graphVars, anchorVars, distVars, radius,
                   flowVars, elist, i, j, sweep, r1, result, histVars>>

\* net_prep.prep_net_for_sims(G) designates G.graph['source'] and
\* G.graph['sink']; the graph is returned
Prep ==
    /\ pc = "prep"
    /\ gsource' \in DOMAIN adj
    /\ gsink' \in DOMAIN adj
    /\ pc' = "returned"
    /\ UNCHANGED <<err, paramVars, graphVars, distVars, radius, flowVars,
                   elist, i, j, sweep, r1, result, histVars>>

\* make_switches(G) is called: the outer loop starts
SwitchBegin ==
    /\ pc = "returned"
    /\ pc' = "switch"
    /\ elist' = EdgesOf(adj)
    /\ i' = 1
    /\ j' = 0
    /\ UNCHANGED <<err, paramVars, graphVars, anchorVars, distVars, radius,
                   flowVars, sweep, r1, result, histVars>>

Cd(e) == central_difference(adj, gsource, gsink, e)

\* head of an outer iteration: cd1 and r1 are taken
SwitchOuter ==
    /\ pc = "switch"
    /\ i \in DOMAIN elist
    /\ j = 0
    /\ Cd(elist[i]) # NoPath
    /\ r1' = radius[elist[i]]
    /\ j' = 1
    /\ UNCHANGED <<pc, err, paramVars, graphVars, anchorVars, distVars, radius,
                   flowVars, elist, i, sweep, result, histVars>>

\* central_difference raises for edge 1
SwitchOuterRaises ==
    /\ pc = "switch"
    /\ i \in DOMAIN elist
    /\ j = 0
    /\ Cd(elist[i]) = NoPath
    /\ pc' = "raised"
    /\ err' = "NetworkXNoPath"
    /\ UNCHANGED <<paramVars, graphVars, anchorVars, distVars, radius,
                   flowVars, elist, i, j, sweep, r1, result, histVars>>

\* central_difference raises for the partner
SwitchInnerRaises ==
    /\ pc = "switch"
    /\ i \in DOMAIN elist
    /\ j \in DOMAIN elist
    /\ ~SwitchSkips(elist[i], elist[j])
    /\ Cd(elist[j]) = NoPath
    /\ pc' = "raised"
    /\ err' = "NetworkXNoPath"
    /\ UNCHANGED <<paramVars, graphVars, anchorVars, distVars, radius,
                   flowVars, elist, i, j, sweep, r1, result, histVars>>

SwitchSkip ==
    /\ pc = "switch"
    /\ i \in DOMAIN elist
    /\ j \in DOMAIN elist
    /\ SwitchSkips(elist[i], elist[j])
    /\ j' = j + 1
    /\ UNCHANGED <<pc, err, paramVars, graphVars, anchorVars, distVars, radius,
                   flowVars, elist, i, sweep, r1, result, histVars>>

SwitchKeep ==
    /\ pc = "switch"
    /\ i \in DOMAIN elist
    /\ j \in DOMAIN elist
    /\ ~SwitchSkips(elist[i], elist[j])
    /\ Cd(elist[j]) # NoPath
    /\ ~SwitchSwaps(Cd(elist[i]), r1, Cd(elist[j]), radius[elist[j]])
    /\ j' = j + 1
    /\ UNCHANGED <<pc, err, paramVars, graphVars, anchorVars, distVars, radius,
                   flowVars, elist, i, sweep, r1, result, histVars>>

\* the swap and the break
SwitchSwap ==
    /\ pc = "switch"
    /\ i \in DOMAIN elist
    /\ j \in DOMAIN elist
    /\ ~SwitchSkips(elist[i], elist[j])
    /\ Cd(elist[j]) # NoPath
    /\ SwitchSwaps(Cd(elist[i]), r1, Cd(elist[j]), radius[elist[j]])
    /\ radius' = SwitchAssign(radius, elist[i], elist[j], r1, radius[elist[j]])
    /\ swapped' = <<"switch", elist[i], elist[j]>>
    /\ i' = i + 1
    /\ j' = 0
    /\ UNCHANGED <<pc, err, paramVars, graphVars, anchorVars, distVars,
                   flowVars, elist, sweep, r1, result, nswaps, radius0>>

\* the inner loop ran out of partners
SwitchNext ==
    /\ pc = "switch"
    /\ i \in DOMAIN elist
    /\ j > Len(elist)
    /\ i' = i + 1
    /\ j' = 0
    /\ UNCHANGED <<pc, err, paramVars, graphVars, anchorVars, distVars, radius,
                   flowVars, elist, sweep, r1, result, histVars>>

SwitchReturn ==
    /\ pc = "switch"
    /\ i > Len(elist)
    /\ pc' = "switched"
    /\ UNCHANGED <<err, paramVars, graphVars, anchorVars, distVars, radius,
                   flowVars, elist, i, j, sweep, r1, result, histVars>>

NextRadii ==
    \/ Rank
    \/ DrawRadii
    \/ RepairSkip
    \/ RepairKeep
    \/ RepairSwap
    \/ RepairDone
    \/ Prep
    \/ SwitchBegin
    \/ SwitchOuter
    \/ SwitchOuterRaises
    \/ SwitchInnerRaises
    \/ SwitchSkip
    \/ SwitchKeep
    \/ SwitchSwap
    \/ SwitchNext
    \/ SwitchReturn

SpecRadii == InitRadii /\ [][NextRadii]_vars

----------------------------------------------------------------------------
(* Properties of the repair sweeps and of make_switches.                   *)

SharesEndpoint(e1, e2) == {e1[1], e1[2]} \cap {e2[1], e2[2]} # {}

\* a pair of edges whose radii are in the wrong order for their center_dist
Inverted(cd, r, a, b) == cd[a] > cd[b] /\ r[a] < r[b]

InversionCount(cd, r) ==
    Cardinality({p \in (DOMAIN r) \X (DOMAIN r) : Inverted(cd, r, p[1], p[2])})

BagOfRadii(r) ==
    [x \in {r[e] : e \in DOMAIN r} |-> Cardinality({e \in DOMAIN r : r[e] = x})]

\* this step of a repair sweep changes a radius
RepairChanges == pc = "repair" /\ radius' # radius

\* this step of make_switches changes a radius
SwitchChanges == pc = "switch" /\ radius' # radius

\* C3 as stated: a repair sweep swaps radii only between edges A and B that
\* share no endpoint, with center_dist(A) > center_dist(B) and
\* radius(A) < radius(B).
C3_SwapsOnlyDisjointEdges ==
    [][RepairChanges =>
        /\ ~SharesEndpoint(elist[i], elist[j])
        /\ center_dist[elist[i]] > center_dist[elist[j]]
        /\ radius[elist[i]] < radius[elist[j]]
        /\ radius' = [radius EXCEPT ![elist[i]] = radius[elist[j]],
                                    ![elist[j]] = radius[elist[i]]]]_vars

\* C3 amended: a repair sweep swaps radii only between edges A and B that
\* leave different nodes, with center_dist(A) > center_dist(B) strictly and
\* radius(A) < radius(B) strictly; it never swaps the radii of two edges with
\* the same source endpoint.
C3_SwapsOnlyDifferentSources ==
    [][RepairChanges =>
        /\ elist[i][1] # elist[j][1]
        /\ center_dist[elist[i]] > center_dist[elist[j]]
        /\ radius[elist[i]] < radius[elist[j]]
        /\ radius' = [radius EXCEPT ![elist[i]] = radius[elist[j]],
                                    ![elist[j]] = radius[elist[i]]]]_vars

\* a repair sweep has swapped the radii of two edges that share a node
C3_Witness ==
    /\ pc = "repair"
    /\ swapped # <<>>
    /\ swapped[1] = "repair"
    /\ SharesEndpoint(swapped[2], swapped[3])
    /\ swapped[2][1] # swapped[3][1]

\* C4 as stated: make_switches swaps the radii of edge 1 with the first
\* partner that shares no endpoint with it and has a larger central
\* difference and a smaller radius, then stops scanning for edge 1.
C4_FirstDisjointPartner ==
    [][SwitchChanges =>
        /\ ~SharesEndpoint(elist[i], elist[j])
        /\ Cd(elist[i]) < Cd(elist[j])
        /\ radius[elist[i]] > radius[elist[j]]
        /\ \A m \in 1 .. (j - 1) :
            \/ SharesEndpoint(elist[i], elist[m])
            \/ ~(Cd(elist[i]) < Cd(elist[m]) /\ radius[elist[i]] > radius[elist[m]])
        /\ radius' = [radius EXCEPT ![elist[i]] = radius[elist[j]],
                                    ![elist[j]] = radius[elist[i]]]
        /\ i' = i + 1]_vars

\* C4 amended: make_switches passes over the partners that have the same
\* source endpoint or the same sink endpoint as edge 1 (and no others) and
\* swaps radii with the first remaining partner that has a larger central
\* difference and a smaller radius, then stops scanning for edge 1; so a
\* swap never involves two edges with the same source or the same sink
\* endpoint, and each edge initiates at most one swap per call.
C4_FirstPartnerNotSkipped ==
    [][SwitchChanges =>
        /\ elist[i][1] # elist[j][1]
        /\ elist[i][2] # elist[j][2]
        /\ Cd(elist[i]) < Cd(elist[j])
        /\ radius[elist[i]] > radius[elist[j]]
        /\ \A m \in 1 .. (j - 1) :
            \/ elist[i][1] = elist[m][1]
            \/ elist[i][2] = elist[m][2]
            \/ ~(Cd(elist[i]) < Cd(elist[m]) /\ radius[elist[i]] > radius[elist[m]])
        /\ radius' = [radius EXCEPT ![elist[i]] = radius[elist[j]],
                                    ![elist[j]] = radius[elist[i]]]
        /\ i' = i + 1]_vars

\* make_switches has swapped the radii of two edges of which one ends where
\* the other starts
C4_Witness ==
    /\ pc \in {"switch", "switched"}
    /\ swapped # <<>>
    /\ swapped[1] = "switch"
    /\ SharesEndpoint(swapped[2], swapped[3])

\* the input of GraphA left unsorted by two sweeps
UnsortedDraw == [e \in EdgeSet(ZeroBased(GraphA.adj)) |->
                    IF e \in {<<1, 4>>, <<4, 1>>} THEN 1 ELSE 2]

StillInverted ==
    \E a \in DOMAIN radius : \E b \in DOMAIN radius :
        ~SharesEndpoint(a, b) /\ Inverted(center_dist, radius, a, b)

Frame == <<graphVars, anchorVars, distVars, flowVars>>

\* C9: the repair sweeps and make_switches only permute the radii: at every
\* point of the sweeps and of the later make_switches call the multiset of
\* radii is the multiset drawn, and no step of either pass changes a node, an
\* edge, a graph attribute or an edge attribute other than radius.
C9_RadiiPermuted ==
    /\ [](pc \in {"repair", "prep", "returned", "switch", "switched", "raised"} =>
            /\ BagOfRadii(radius) = BagOfRadii(radius0)
            /\ DOMAIN radius = EdgeSet(adj))
    /\ [][(pc \in {"repair", "switch"}) => UNCHANGED Frame]_vars

\* make_switches returned after swaps of the repair sweeps and swaps of its
\* own
C9_Witness ==
    /\ pc = "switched"
    /\ nswaps > 0
    /\ swapped[1] = "switch"
    /\ radius # radius0

\* C10: every swap of a repair sweep strictly decreases the number of
\* inverted pairs, so that the swaps made so far plus the inversions left
\* never exceed the inversions of the draw.
C10_SwapsRemoveInversions ==
    /\ [][RepairChanges =>
            InversionCount(center_dist, radius') < InversionCount(center_dist, radius)]_vars
    /\ [](pc \in {"repair", "prep"} =>
            nswaps + InversionCount(center_dist, radius)
                <= InversionCount(center_dist, radius0))

\* a sweep has made several swaps
C10_Witness ==
    /\ pc = "repair"
    /\ nswaps >= 3

====
